---- MODULE Spec2Model ----
(***************************************************************************)
(* Credential validation and authentication-strategy broker of the GitHub  *)
(* Enterprise MCP server: the two getUserFromToken implementations, the    *)
(* registries of authenticated users, the Basic-Auth and OAuth entry       *)
(* points, and the request hooks that log masked request records.          *)
(*                                                                         *)
(* JavaScript strings are sequences of one-character strings, so that      *)
(* trim, substring and replace are computed character by character.        *)
(***************************************************************************)
EXTENDS Integers, Sequences, FiniteSets, Bags, TLC

(***************************************************************************)
(* Bounds of the model.                                                    *)
(***************************************************************************)
MaxSecretLen == 5
MaxCalls == 2
MaxStarts == 2
MaxArgs == 2

(***************************************************************************)
(* JavaScript values and string primitives.                                *)
(***************************************************************************)
Undefined == [t |-> "undefined", v |-> <<>>]

Null == [t |-> "null", v |-> <<>>]

JsString(s) == [t |-> "string", v |-> s]

JsNumber(n) == [t |-> "number", v |-> n]

\* !x
Falsy(x) ==
  \/ x.t \in {"undefined", "null"}
  \/ x.t = "string" /\ x.v = <<>>
  \/ x.t = "number" /\ x.v = 0

Min(a, b) == IF a < b THEN a ELSE b

Max(a, b) == IF a > b THEN a ELSE b

\* String.prototype.substring(start): start is clamped to [0, length].
Substring(s, start) == SubSeq(s, Min(Max(start, 0), Len(s)) + 1, Len(s))

WhiteSpace == {" ", "\t", "\n"}

RECURSIVE TrimStart(_)
TrimStart(s) ==
  IF s # <<>> /\ Head(s) \in WhiteSpace THEN TrimStart(Tail(s)) ELSE s

RECURSIVE TrimEnd(_)
TrimEnd(s) ==
  IF s # <<>> /\ s[Len(s)] \in WhiteSpace
  THEN TrimEnd(SubSeq(s, 1, Len(s) - 1))
  ELSE s

\* String.prototype.trim()
Trim(s) == TrimEnd(TrimStart(s))

\* s occurs in v starting at index i (1-based)
OccursAt(v, s, i) ==
  /\ i >= 1
  /\ i + Len(s) - 1 <= Len(v)
  /\ SubSeq(v, i, i + Len(s) - 1) = s

Contains(v, s) == \E i \in 1..(Len(v) + 1) : OccursAt(v, s, i)

\* All strings over an alphabet of length at most n
StringsUpTo(alphabet, n) == UNION {[1..k -> alphabet] : k \in 0..n}

(***************************************************************************)
(* String.prototype.replace(regex, replacement) for the two regular        *)
(* expressions of the request hooks.  Both have the shape                  *)
(*   lit cls+ ([^$]+)                                                      *)
(* with lit a literal and cls a character class: /bearer\s+([^$]+)/ has    *)
(* lit = "bearer" and cls = white space; /bearer\\s+([^$]+)/ has           *)
(* lit = "bearer\" and cls = {"s"}.                                        *)
(***************************************************************************)
\* The regex matches starting at index i: the literal, at least one cls
\* character, at least one character other than "$" (cls+ backtracks to one).
RegexMatchesAt(v, lit, cls, i) ==
  /\ OccursAt(v, lit, i)
  /\ i + Len(lit) + 1 <= Len(v)
  /\ v[i + Len(lit)] \in cls
  /\ v[i + Len(lit) + 1] # "$"

\* Index of the leftmost match, 0 if there is none
RegexIndex(v, lit, cls) ==
  LET hits == {i \in 1..Len(v) : RegexMatchesAt(v, lit, cls, i)}
  IN IF hits = {} THEN 0 ELSE CHOOSE i \in hits : \A j \in hits : i <= j

\* Last index of the match starting at i: [^$]+ is greedy
RegexEnd(v, lit, cls, i) ==
  LET from == i + Len(lit) + 1
      ends == {e \in from..Len(v) : \A k \in from..e : v[k] # "$"}
  IN CHOOSE e \in ends : \A f \in ends : f <= e

\* First index of capture group 1 of the match starting at i: cls+ is greedy
\* and gives one character back when nothing is left for the group.
RegexGroupStart(v, lit, cls, i) ==
  LET from == i + Len(lit)
      runs == {w \in from..Len(v) : \A k \in from..w : v[k] \in cls}
      w == CHOOSE x \in runs : \A y \in runs : y <= x
  IN IF w + 1 <= Len(v) /\ v[w + 1] # "$" THEN w + 1 ELSE w

\* GetSubstitution: the "$" patterns of a replacement string, for a regex
\* with one capture group.
RECURSIVE ExpandReplacement(_, _, _, _, _)
ExpandReplacement(r, matched, before, after, group1) ==
  IF r = <<>> THEN <<>>
  ELSE IF Head(r) = "$" /\ Len(r) >= 2 /\ r[2] = "$"
    THEN <<"$">> \o ExpandReplacement(Substring(r, 2), matched, before, after, group1)
  ELSE IF Head(r) = "$" /\ Len(r) >= 2 /\ r[2] = "&"
    THEN matched \o ExpandReplacement(Substring(r, 2), matched, before, after, group1)
  ELSE IF Head(r) = "$" /\ Len(r) >= 2 /\ r[2] = "`"
    THEN before \o ExpandReplacement(Substring(r, 2), matched, before, after, group1)
  ELSE IF Head(r) = "$" /\ Len(r) >= 2 /\ r[2] = "'"
    THEN after \o ExpandReplacement(Substring(r, 2), matched, before, after, group1)
  ELSE IF Head(r) = "$" /\ Len(r) >= 3 /\ r[2] = "0" /\ r[3] = "1"
    THEN group1 \o ExpandReplacement(Substring(r, 3), matched, before, after, group1)
  ELSE IF Head(r) = "$" /\ Len(r) >= 2 /\ r[2] = "1"
    THEN group1 \o ExpandReplacement(Substring(r, 2), matched, before, after, group1)
  ELSE <<Head(r)>> \o ExpandReplacement(Tail(r), matched, before, after, group1)

\* v.replace(/lit cls+ ([^$]+)/, replacement): the leftmost match is replaced
JsReplace(v, lit, cls, replacement) ==
  LET i == RegexIndex(v, lit, cls)
  IN IF i = 0 THEN v
     ELSE LET e == RegexEnd(v, lit, cls, i)
              g == RegexGroupStart(v, lit, cls, i)
              before == SubSeq(v, 1, i - 1)
              after == SubSeq(v, e + 1, Len(v))
          IN before
             \o ExpandReplacement(replacement, SubSeq(v, i, e), before, after,
                                  SubSeq(v, g, e))
             \o after

(***************************************************************************)
(* Header values and their masks.                                          *)
(***************************************************************************)
TokenScheme == <<"t", "o", "k", "e", "n", " ">>

BearerWord == <<"b", "e", "a", "r", "e", "r">>

BearerBackslash == <<"b", "e", "a", "r", "e", "r", "\\">>

MaskedAuthPrefix == <<"B", "e", "a", "r", "e", "r", " ", "x", "x", "x", "x">>

MaskedMfaPrefix == <<"b", "e", "a", "r", "e", "r", " ", "x", "x", "x", "x">>

\* The authorization header Octokit sends for `auth: token`
AuthorizationHeader(token) == TokenScheme \o token

\* "MFA": mfaBearerToken ? `bearer ${mfaBearerToken}` : ''
MfaHeaderValue(mfa) == IF mfa # <<>> THEN BearerWord \o <<" ">> \o mfa ELSE <<>>

\* 'Bearer xxxx' + authorization.substring(authorization.length - 4)
MaskAuthorization(value) == MaskedAuthPrefix \o Substring(value, Len(value) - 4)

\* basicAuth.ts: MFA.replace(/bearer\s+([^$]+)/, 'bearer xxxx' + last four)
BasicAuthMaskMfa(value) ==
  JsReplace(value, BearerWord, WhiteSpace,
            MaskedMfaPrefix \o Substring(value, Len(value) - 4))

\* githubService.ts: MFA.replace(/bearer\\s+([^$]+)/, 'bearer xxxx' + last four)
ServiceMaskMfa(value) ==
  JsReplace(value, BearerBackslash, {"s"},
            MaskedMfaPrefix \o Substring(value, Len(value) - 4))

(***************************************************************************)
(* Requests and the beforeRequest hooks.  A request is its method, its     *)
(* URL and its headers (a function from header names to values); `via`     *)
(* names the code that built it.                                           *)
(***************************************************************************)
NoHeaders == [n \in {} |-> <<>>]

NoRequest == [via |-> "none", method |-> "", url |-> "", headers |-> NoHeaders]

\* githubAuth.ts: new Octokit({ auth: token, baseUrl })
GithubAuthRequest(token) ==
  [via |-> "githubAuth", method |-> "GET", url |-> "/user",
   headers |-> [authorization |-> AuthorizationHeader(token)]]

\* basicAuth.ts: new Octokit({ auth: token, request: { headers: { MFA } } })
BasicAuthRequest(token, mfa) ==
  [via |-> "basicAuth", method |-> "GET", url |-> "/user",
   headers |-> [authorization |-> AuthorizationHeader(token),
                MFA |-> MfaHeaderValue(mfa)]]

\* githubService.ts: new Octokit({ auth: user.accessToken, request: { headers: { MFA } } })
ServiceRequest(token, mfa) ==
  [via |-> "service", method |-> "GET", url |-> "/user/repos",
   headers |-> [authorization |-> AuthorizationHeader(token),
                MFA |-> MfaHeaderValue(mfa)]]

\* maskedRequest.headers && maskedRequest.headers[name]
HasHeader(request, name) ==
  name \in DOMAIN request.headers /\ request.headers[name] # <<>>

\* JSON.parse(JSON.stringify(request)): a fresh object with the same strings
JsonCopy(request) ==
  [via |-> request.via, method |-> request.method, url |-> request.url,
   headers |-> [n \in DOMAIN request.headers |-> request.headers[n]]]

\* if (maskedRequest.headers.authorization) maskedRequest.headers = { ..., authorization: mask }
MaskedAuthorization(maskedRequest) ==
  IF HasHeader(maskedRequest, "authorization")
  THEN [maskedRequest EXCEPT !.headers["authorization"] = MaskAuthorization(@)]
  ELSE maskedRequest

\* basicAuth.ts beforeRequest: the request after the hook and the record logged
BasicAuthBeforeRequest(request) ==
  LET m1 == MaskedAuthorization(JsonCopy(request))
      maskedRequest == IF HasHeader(m1, "MFA")
                       THEN [m1 EXCEPT !.headers["MFA"] = BasicAuthMaskMfa(@)]
                       ELSE m1
  IN [request |-> request,
      record |-> [via |-> request.via, method |-> maskedRequest.method,
                  url |-> maskedRequest.url, headers |-> maskedRequest.headers]]

\* { ...request }: a fresh object with the properties of request
ShallowCopy(request) ==
  [via |-> request.via, method |-> request.method, url |-> request.url,
   headers |-> request.headers]

\* The beforeRequest of the earlier GitHubService: it masks a shallow copy, whose
\* headers property it replaces by a new object
LegacyBeforeRequest(request) ==
  LET m1 == MaskedAuthorization(ShallowCopy(request))
      maskedRequest == IF HasHeader(m1, "MFA")
                       THEN [m1 EXCEPT !.headers["MFA"] = BasicAuthMaskMfa(@)]
                       ELSE m1
  IN [request |-> request,
      record |-> [via |-> request.via, method |-> maskedRequest.method,
                  url |-> maskedRequest.url, headers |-> maskedRequest.headers]]

\* Mutant of ServiceBeforeRequest: the request itself is masked
ServiceBeforeRequestInPlace(request) ==
  LET m1 == MaskedAuthorization(request)
      maskedRequest == IF HasHeader(m1, "MFA")
                       THEN [m1 EXCEPT !.headers["MFA"] = ServiceMaskMfa(@)]
                       ELSE m1
  IN [request |-> maskedRequest,
      record |-> [via |-> request.via, method |-> maskedRequest.method,
                  url |-> maskedRequest.url, headers |-> maskedRequest.headers]]

\* githubService.ts beforeRequest: the request after the hook and the record logged
ServiceBeforeRequest(request) ==
  LET m1 == MaskedAuthorization(JsonCopy(request))
      maskedRequest == IF HasHeader(m1, "MFA")
                       THEN [m1 EXCEPT !.headers["MFA"] = ServiceMaskMfa(@)]
                       ELSE m1
  IN [request |-> request,
      record |-> [via |-> request.via, method |-> maskedRequest.method,
                  url |-> maskedRequest.url, headers |-> maskedRequest.headers]]

(***************************************************************************)
(* The registry: a JavaScript Map from id to user, kept in insertion       *)
(* order as a sequence of entries.                                         *)
(***************************************************************************)
MapHas(m, k) == \E i \in 1..Len(m) : m[i].key = k

MapGet(m, k) ==
  IF MapHas(m, k) THEN m[CHOOSE i \in 1..Len(m) : m[i].key = k].value ELSE Undefined

\* Mutant of MapSet: every set appends an entry
MapSetAppend(m, k, v) == Append(m, [key |-> k, value |-> v])

\* Mutant of MapSet: an existing key is deleted and set again, which moves it last
MapSetMoveLast(m, k, v) ==
  LET keep == {i \in 1..Len(m) : m[i].key # k}
      Nth(n) == CHOOSE i \in keep : Cardinality({j \in keep : j <= i}) = n
  IN Append([n \in 1..Cardinality(keep) |-> m[Nth(n)]], [key |-> k, value |-> v])

\* Mutant of MapSet: an existing key keeps its value
MapSetKeepFirst(m, k, v) ==
  IF MapHas(m, k) THEN m ELSE Append(m, [key |-> k, value |-> v])

\* Map.prototype.set: an existing key keeps its place, a new key goes last
MapSet(m, k, v) ==
  IF MapHas(m, k)
  THEN [i \in 1..Len(m) |-> IF m[i].key = k THEN [key |-> k, value |-> v] ELSE m[i]]
  ELSE Append(m, [key |-> k, value |-> v])

\* Mutant of MapFirstValue: authenticatedUsers.keys().next().value
MapFirstKey(m) == IF m = <<>> THEN Undefined ELSE m[1].key

\* authenticatedUsers.values().next().value
MapFirstValue(m) == IF m = <<>> THEN Undefined ELSE m[1].value

(***************************************************************************)
(* The upstream "who am I" endpoint and the two getUserFromToken           *)
(* implementations.                                                        *)
(***************************************************************************)
Digits == <<"0", "1", "2", "3", "4", "5", "6", "7", "8", "9">>

\* Number.prototype.toString() of a non-negative integer
RECURSIVE ToDecimal(_)
ToDecimal(n) ==
  IF n < 10 THEN <<Digits[n + 1]>>
  ELSE ToDecimal(n \div 10) \o <<Digits[(n % 10) + 1]>>

IdNumbers == {0, 7, 12}

Logins == {<<"a", "l">>}

\* status 0 stands for a network-level failure (the error carries no status)
FailureStatuses == {401, 403, 404, 500, 0}

NoResponse == [status |-> -1, id |-> Undefined, login |-> Undefined]

UpstreamResponses ==
  {[status |-> 200, id |-> i, login |-> l] :
     i \in {Undefined} \cup {JsNumber(n) : n \in IdNumbers},
     l \in {Undefined} \cup {JsString(x) : x \in Logins}}
  \cup {[status |-> st, id |-> Undefined, login |-> Undefined] : st \in FailureStatuses}

\* A header value the HTTP client refuses to send: one that has a line break
\* inside it.  The client is outside the repository; it strips white space
\* around a value and throws a TypeError for a CR or LF left in it.
InvalidHeaderValue(value) ==
  Contains(Trim(value), <<"\n">>) \/ Contains(Trim(value), <<"\r">>)

\* The client throws instead of sending the request
Rejected(request) ==
  \E n \in DOMAIN request.headers : InvalidHeaderValue(request.headers[n])

\* What the awaited request can settle with: an answer of the upstream, or
\* for a request that is not sent the error of the client, which has no status
Answers(request) ==
  IF Rejected(request)
  THEN {[status |-> 0, id |-> Undefined, login |-> Undefined]}
  ELSE UpstreamResponses

\* Mutant of InvalidToken: the trim() test is left out
InvalidTokenNoTrim(token) == Falsy(token) \/ token.t # "string"

\* !token || typeof token !== 'string' || token.trim() === ''
InvalidToken(token) ==
  Falsy(token) \/ token.t # "string" \/ Trim(token.v) = <<>>

\* Mutant of MakeUser: the username is taken from the id
MakeUserCopiedId(token, userInfo) ==
  [id |-> JsString(ToDecimal(userInfo.id.v)),
   username |-> JsString(ToDecimal(userInfo.id.v)),
   accessToken |-> token, profile |-> userInfo]

\* const user: User = { id: userInfo.id.toString(), username: userInfo.login, ... }
MakeUser(token, userInfo) ==
  [id |-> JsString(ToDecimal(userInfo.id.v)), username |-> userInfo.login,
   accessToken |-> token, profile |-> userInfo]

\* githubAuth.ts getUserFromToken after the await: the value returned, the
\* message logged, and whether another request is issued
GithubAuthOutcome(token, resp) ==
  IF resp.status = 200
  THEN IF Falsy(resp.id)
       THEN [user |-> Null, err |-> "invalidUserInfo", retry |-> FALSE]
       ELSE [user |-> MakeUser(token, resp), err |-> "none", retry |-> FALSE]
  ELSE IF resp.status = 401 THEN [user |-> Null, err |-> "401", retry |-> FALSE]
  ELSE IF resp.status = 403 THEN [user |-> Null, err |-> "403", retry |-> FALSE]
  ELSE IF resp.status = 404 THEN [user |-> Null, err |-> "404", retry |-> FALSE]
  ELSE [user |-> Null, err |-> "other", retry |-> FALSE]

\* Mutant of BasicAuthOutcome: a rate-limited request is sent again
BasicAuthOutcomeRetry(token, resp) ==
  IF resp.status = 200 /\ ~Falsy(resp.id)
  THEN [user |-> [id |-> JsString(ToDecimal(resp.id.v)), username |-> resp.login,
                  accessToken |-> token, profile |-> resp],
        err |-> "none", retry |-> FALSE]
  ELSE [user |-> Null, err |-> "other", retry |-> resp.status = 403]

\* basicAuth.ts getUserFromToken after the await
BasicAuthOutcome(token, resp) ==
  IF resp.status = 200
  THEN IF Falsy(resp.id)
       THEN [user |-> Null, err |-> "invalidUserInfo", retry |-> FALSE]
       ELSE [user |-> MakeUser(token, resp), err |-> "none", retry |-> FALSE]
  ELSE IF resp.status = 401 THEN [user |-> Null, err |-> "401", retry |-> FALSE]
  ELSE IF resp.status = 403 THEN [user |-> Null, err |-> "403", retry |-> FALSE]
  ELSE [user |-> Null, err |-> "other", retry |-> FALSE]

\* The early return of both implementations for an invalid token
InvalidTokenOutcome == [user |-> Null, err |-> "invalidToken", retry |-> FALSE]

(***************************************************************************)
(* State.                                                                  *)
(***************************************************************************)
VARIABLES
  config,              \* config.github: authMethod and token
  mfaBearerToken,      \* process.env.GH_MFA_BEARER_TOKEN || ''
  mainPc,              \* the server process: loaded, authenticating, serving, exited
  pending,             \* the bag of verification calls suspended at their upstream round trip
  authenticatedUsers,  \* the registry of the server (index.ts)
  basicAuthUsers,      \* the registry of the basic-auth module (basicAuth.ts)
  started,             \* calls begun by the entry points other than startup
  requests,            \* who-am-I requests issued to the upstream
  records,             \* request records logged by the hooks
  last,                \* the last call that completed
  env,                 \* process.env
  isTokenAuth,         \* const isTokenAuth = config.github.authMethod === 'token'
  validated,           \* calls of validateMcpConfig that have returned
  cli                  \* the command-line process that spawns the server

vars ==
  <<config, mfaBearerToken, mainPc, pending, authenticatedUsers, basicAuthUsers,
    started, requests, records, last, env, isTokenAuth, validated, cli>>

Idle ==
  [entry |-> "idle", token |-> Undefined, sent |-> 0, request |-> NoRequest,
   record |-> NoRequest, left |-> 0]

\* Credentials presented to the entry points
Credentials ==
  {JsString(<<>>), JsString(<<" ">>), JsString(<<"a">>), JsString(<<" ", "b">>)}

\* process.env.GH_TOKEN: unset or a token
EnvTokens == {Undefined, JsString(<<"a">>)}

\* The username of a Basic-Auth request that reaches the verify callback
Usernames == {JsString(<<"g">>), JsString(<<"x">>)}

AuthMethods == {"token", "oauth"}

MfaSecrets == {<<>>, <<"m">>}

\* Secrets of the instrumentation runs
TokenSecrets == StringsUpTo({"a", "b"}, MaxSecretLen) \ {<<>>}

LongMfaSecrets == StringsUpTo({"a", "b", "$"}, MaxSecretLen)

\* A JavaScript boolean
JsBoolean(b) == [t |-> "boolean", v |-> <<b>>]

\* A thrown Error with its message
JsError(message) == [t |-> "Error", message |-> message]

\* a || b
JsOr(a, b) == IF Falsy(a) THEN b ELSE a

\* config.ts: the configuration read from process.env when the module loads
\* (GH_AUTH_METHOD is "" when unset, GH_MFA_BEARER_TOKEN is <<>> when unset)
LoadConfig(e) ==
  [authMethod |-> IF e.GH_AUTH_METHOD = "" THEN "token" ELSE e.GH_AUTH_METHOD,
   token |-> JsOr(e.GH_TOKEN, JsString(<<>>)),
   clientId |-> JsOr(e.GH_CLIENT_ID, JsString(<<>>)),
   clientSecret |-> JsOr(e.GH_CLIENT_SECRET, JsString(<<>>))]

\* The environments of the server
ServerEnvs ==
  [GH_AUTH_METHOD : AuthMethods, GH_TOKEN : EnvTokens,
   GH_MFA_BEARER_TOKEN : MfaSecrets,
   GH_CLIENT_ID : {JsString(<<"c">>)}, GH_CLIENT_SECRET : {JsString(<<"s">>)}]

\* The server was not started from the command line
NoCli ==
  [pc |-> "none", argv |-> <<>>, env |-> Undefined, exitCode |-> Null,
   spawned |-> FALSE, serverCode |-> Undefined]

\* The state of the process once its modules are loaded from environment e
Loaded(e) ==
  /\ env = e
  /\ validated = 0
  /\ cli = NoCli
  /\ config = LoadConfig(e)
  /\ isTokenAuth = (LoadConfig(e).authMethod = "token")
  /\ mfaBearerToken = e.GH_MFA_BEARER_TOKEN
  /\ mainPc = "loaded"
  /\ pending = EmptyBag
  /\ authenticatedUsers = <<>>
  /\ basicAuthUsers = <<>>
  /\ started = 0
  /\ requests = 0
  /\ records = 0

GithubAuthEntries == {"startup", "basic", "verifyGithubAuth", "createMcpServer"}

BasicAuthEntries == {"tokenInit", "basicStrategy"}

\* Entry points running inside the server process
MainEntries == {"startup", "basic", "oauth"}

\* The tools registered by registerMcpTools
ToolNames == {"list-repositories", "create-branch", "list-branches", "get-repository"}

\* No HTTP response: the entry point is not an HTTP route
NoHttpResponse ==
  [status |-> 0, authenticated |-> FALSE, username |-> Undefined, challenge |-> ""]

\* The entry point has no caller that takes a value from it
NoReturn == [thrown |-> FALSE, value |-> Undefined]

NoCall ==
  [flip |-> FALSE, entry |-> "none", token |-> Undefined, resp |-> NoResponse,
   result |-> Null, err |-> "none", sent |-> 0, http |-> 0,
   response |-> NoHttpResponse, returned |-> NoReturn,
   request |-> NoRequest, record |-> NoRequest]

Init ==
  /\ \E e \in ServerEnvs : Loaded(e)
  /\ last = NoCall

(***************************************************************************)
(* Steps shared by the entry points.                                       *)
(***************************************************************************)
\* The response of the Basic-Auth route: the handler's JSON body on success;
\* on failure the 401 of passport.authenticate with the challenge of the strategy
\* Mutant of BasicAuthResponse: the handler answers whatever the strategy found
BasicAuthResponseAlways(user) ==
  [status |-> 200, authenticated |-> TRUE,
   username |-> IF user # Null THEN user.username ELSE Undefined, challenge |-> ""]

\* res.status(200).json({ authenticated: true, message, username: user.username })
BasicAuthResponse(user) ==
  IF user # Null
  THEN [status |-> 200, authenticated |-> TRUE, username |-> user.username,
        challenge |-> ""]
  ELSE [status |-> 401, authenticated |-> FALSE, username |-> Undefined,
        challenge |-> "Basic"]

\* Mutant of StoreUser: the user is stored without the test
StoreUserUnchecked(registry, user) ==
  IF user # Null THEN MapSet(registry, user.id, user)
  ELSE MapSet(registry, Undefined, user)

\* Mutant of StoreUser: a failed verification empties the registry
StoreUserClearing(registry, user) ==
  IF user # Null THEN MapSet(registry, user.id, user) ELSE <<>>

\* if (user) { authenticatedUsers.set(user.id, user); }
StoreUser(registry, user) ==
  IF user # Null THEN MapSet(registry, user.id, user) ELSE registry

\* The tools that createMcpServer registers on the server it returns
WrapperTools == {"list-repositories", "create-branch"}

\* Mutant of CreateMcpServerReturn: the server is returned without its tools
CreateMcpServerReturnAlways(user) ==
  [thrown |-> FALSE,
   value |-> [server |-> "McpServer", tools |-> IF user # Null THEN WrapperTools ELSE {}]]

\* if (user) { server.tool(...); ... } else { throw new Error(...); } return server;
CreateMcpServerReturn(user) ==
  IF user # Null
  THEN [thrown |-> FALSE, value |-> [server |-> "McpServer", tools |-> WrapperTools]]
  ELSE [thrown |-> TRUE,
        value |-> JsError(<<"Authentication required. Please provide a valid token.">>)]

\* The response of the Basic-Auth route: 200 from the handler, 401 from passport
BasicAuthStatus(user) == IF user # Null THEN 200 ELSE 401

\* The call suspended at its round trip: the request getUserFromToken sent
\* and the record its hook logged (none in githubAuth.ts)
Sent(entry, token) ==
  IF entry \in BasicAuthEntries
  THEN LET hook == BasicAuthBeforeRequest(BasicAuthRequest(token.v, mfaBearerToken))
       IN [entry |-> entry, token |-> token, sent |-> 1,
           request |-> hook.request, record |-> hook.record, left |-> 0]
  ELSE [entry |-> entry, token |-> token, sent |-> 1,
        request |-> GithubAuthRequest(token.v), record |-> NoRequest, left |-> 0]

\* The entry point completes with the outcome of its verification: the
\* registry write, the HTTP status, and the exit of the server when its
\* startup verification failed.  pend is pending without the completed call.
Finish(call, resp, outcome, pend) ==
  LET user == outcome.user
      entry == call.entry
      exits == entry = "startup" /\ user = Null
  IN /\ last' = [flip |-> ~last.flip, entry |-> entry, token |-> call.token,
                 resp |-> resp, result |-> user, err |-> outcome.err,
                 sent |-> call.sent,
                 http |-> IF entry \in {"basic", "basicStrategy"}
                          THEN BasicAuthStatus(user) ELSE 0,
                 response |-> IF entry \in {"basic", "basicStrategy"}
                              THEN BasicAuthResponse(user) ELSE NoHttpResponse,
                 returned |-> IF entry = "createMcpServer"
                              THEN CreateMcpServerReturn(user) ELSE NoReturn,
                 request |-> call.request, record |-> call.record]
     /\ authenticatedUsers' =
          IF entry \in MainEntries THEN StoreUser(authenticatedUsers, user)
          ELSE authenticatedUsers
     /\ basicAuthUsers' =
          IF entry \in {"tokenInit", "basicStrategy"} THEN StoreUser(basicAuthUsers, user)
          ELSE basicAuthUsers
     /\ mainPc' = IF entry = "startup"
                  THEN IF user # Null THEN "serving" ELSE "exited"
                  ELSE mainPc
     /\ pending' = IF exits
                   THEN [c \in {d \in DOMAIN pend : d.entry \notin MainEntries} |-> pend[c]]
                   ELSE pend

\* A call that issues no request: its place in `last`
Unsent(entry, token) == [Idle EXCEPT !.entry = entry, !.token = token]

\* An entry point calls getUserFromToken(token): an invalid token returns at
\* once, any other suspends at the upstream round trip.
Begin(entry, token) ==
  /\ UNCHANGED <<validated, cli, config, isTokenAuth, mfaBearerToken>>
  /\ IF InvalidToken(token)
     THEN /\ Finish(Unsent(entry, token), NoResponse, InvalidTokenOutcome, pending)
          /\ UNCHANGED <<requests, records>>
     ELSE /\ pending' = pending (+) SetToBag({Sent(entry, token)})
          /\ requests' = requests + 1
          /\ records' = IF Sent(entry, token).record # NoRequest THEN records + 1 ELSE records
          /\ mainPc' = IF entry = "startup" THEN "authenticating" ELSE mainPc
          /\ UNCHANGED <<authenticatedUsers, basicAuthUsers, last>>

\* A call of a request-driven entry point
BeginRequest(entry, token) ==
  /\ started < MaxStarts
  /\ BagCardinality(pending) < MaxCalls
  /\ started' = started + 1
  /\ UNCHANGED env
  /\ Begin(entry, token)

\* The upstream answers a suspended call
Complete(call, resp) ==
  LET outcome == IF call.entry \in BasicAuthEntries
                 THEN BasicAuthOutcome(call.token, resp)
                 ELSE GithubAuthOutcome(call.token, resp)
      rest == pending (-) SetToBag({call})
  IN /\ BagIn(call, pending)
     /\ call.entry \notin ToolNames
     /\ UNCHANGED <<validated, cli, config, isTokenAuth, env, mfaBearerToken, started, records>>
     /\ IF outcome.retry
        THEN /\ requests' = requests + 1
             /\ pending' = rest (+) SetToBag({[call EXCEPT !.sent = @ + 1]})
             /\ UNCHANGED <<authenticatedUsers, basicAuthUsers, mainPc, last>>
        ELSE /\ Finish(call, resp, outcome, rest)
             /\ UNCHANGED requests

(***************************************************************************)
(* Operations.                                                             *)
(***************************************************************************)
\* new GitHubStrategy({ clientID: config.github.clientId, ... }) in
\* configureGitHubAuth: the constructor belongs to passport-github, outside the
\* repository; given an empty clientID it either throws, which ends the
\* process, or returns
StrategyOutcomes(c) ==
  IF Falsy(c.clientId) THEN {"serving", "exited"} ELSE {"serving"}

\* Mutant of Main: without token authentication the server gives up
MainTokenOnly ==
  /\ mainPc = "loaded"
  /\ IF isTokenAuth /\ ~Falsy(config.token)
     THEN Begin("startup", config.token) /\ UNCHANGED <<started, env>>
     ELSE /\ mainPc' = "exited"
          /\ UNCHANGED <<validated, cli, config, isTokenAuth, env, mfaBearerToken, pending,
                         authenticatedUsers, basicAuthUsers, started, requests,
                         records, last>>

\* main() and initializeAuthentication() of the server, up to its first await
Main ==
  /\ mainPc = "loaded"
  /\ IF isTokenAuth /\ ~Falsy(config.token)
     THEN Begin("startup", config.token) /\ UNCHANGED <<started, env>>
     ELSE /\ mainPc' \in IF ~isTokenAuth THEN StrategyOutcomes(config) ELSE {"exited"}
          /\ UNCHANGED <<validated, cli, config, isTokenAuth, env, mfaBearerToken, pending,
                         authenticatedUsers, basicAuthUsers, started, requests,
                         records, last>>

\* Mutant of BasicStrategyToken: the token depends on the username
BasicStrategyTokenOfUser(username, password) ==
  IF username = JsString(<<"g">>) THEN password ELSE JsString(<<>>)

\* const token = password: the verify callback of both BasicStrategy
BasicStrategyToken(username, password) == password

\* GET /api/auth/basic of the server with the credentials username:password
BasicRequestAs(username, password) ==
  /\ mainPc \in {"authenticating", "serving"}
  /\ BeginRequest("basic", BasicStrategyToken(username, password))

\* GET /api/auth/basic of the server: the password is the token
BasicRequest ==
  \E username \in Usernames, password \in Credentials :
    BasicRequestAs(username, password)

\* GET /auth/github/callback of the server (OAuth mode): passport-github
\* either fails or hands over the access token and the profile
OAuthCallback ==
  /\ mainPc = "serving"
  /\ ~isTokenAuth
  /\ started < MaxStarts
  /\ started' = started + 1
  /\ \E ok \in BOOLEAN, accessToken \in {JsString(<<"o">>)},
        id \in {ToDecimal(n) : n \in IdNumbers \ {0}}, username \in Logins :
       LET profile == [id |-> JsString(id), username |-> JsString(username)]
           user == IF ok
                   THEN [id |-> profile.id, username |-> profile.username,
                         accessToken |-> accessToken, profile |-> profile]
                   ELSE Null
       IN Finish(Unsent("oauth", IF ok THEN accessToken ELSE Undefined), NoResponse,
                 [user |-> user, err |-> IF ok THEN "none" ELSE "oauthFailed"], pending)
  /\ UNCHANGED <<validated, cli, config, isTokenAuth, env, mfaBearerToken, requests, records>>

\* initializeTokenAuth() of the basic-auth module
TokenInit ==
  IF Falsy(config.token)
  THEN /\ started < MaxStarts
       /\ started' = started + 1
       /\ Finish(Unsent("tokenInit", config.token), NoResponse,
                 [user |-> Null, err |-> "noToken"], pending)
       /\ UNCHANGED <<validated, cli, config, isTokenAuth, env, mfaBearerToken, requests, records>>
  ELSE BeginRequest("tokenInit", config.token)

\* GET /api/auth/basic of the basic-auth module with username:password
BasicStrategyRequestAs(username, password) ==
  BeginRequest("basicStrategy", BasicStrategyToken(username, password))

\* GET /api/auth/basic of the basic-auth module
BasicStrategyRequest ==
  \E username \in Usernames, password \in Credentials :
    BasicStrategyRequestAs(username, password)

\* getUserFromToken of githubAuth.ts called by an importing module
VerifyGithubAuth ==
  \E token \in Credentials \cup {Undefined} : BeginRequest("verifyGithubAuth", token)

\* The upstream answers a suspended call
Respond ==
  \E call \in BagToSet(pending) : \E resp \in Answers(call.request) : Complete(call, resp)

Next ==
  \/ Main
  \/ BasicRequest
  \/ OAuthCallback
  \/ TokenInit
  \/ BasicStrategyRequest
  \/ VerifyGithubAuth
  \/ Respond

Spec == Init /\ [][Next]_vars

(***************************************************************************)
(* The start of a process that uses the package: the server's main(), or   *)
(* a program that calls validateMcpConfig() and createMcpServer().  The    *)
(* environment may lack what the selected method needs.                    *)
(***************************************************************************)
\* Mutant of DefaultAuthMethod: the method is reset on every call
DefaultAuthMethodAlways(c) == [c EXCEPT !.authMethod = "token"]

\* if (!config.github.authMethod) { config.github.authMethod = 'token'; }
DefaultAuthMethod(c) ==
  IF c.authMethod = "" THEN [c EXCEPT !.authMethod = "token"] ELSE c

\* Mutant of validateMcpConfig: the environment is not consulted
validateMcpConfigNoEnv(c, e) ==
  LET c1 == DefaultAuthMethod(c)
  IN IF c1.authMethod = "token"
     THEN [config |-> c1, isValid |-> ~Falsy(c1.token)]
     ELSE IF c1.authMethod = "oauth"
          THEN [config |-> c1,
                isValid |-> ~(Falsy(c1.clientId) \/ Falsy(c1.clientSecret))]
          ELSE [config |-> c1, isValid |-> TRUE]

\* validateMcpConfig(): the configuration it leaves and the value it returns
validateMcpConfig(c, e) ==
  LET c1 == DefaultAuthMethod(c)
  IN IF c1.authMethod = "token"
     THEN IF Falsy(c1.token)
          THEN IF ~Falsy(e.GH_TOKEN)
               THEN [config |-> [c1 EXCEPT !.token = e.GH_TOKEN], isValid |-> TRUE]
               ELSE [config |-> c1, isValid |-> FALSE]
          ELSE [config |-> c1, isValid |-> TRUE]
     ELSE IF c1.authMethod = "oauth"
          THEN [config |-> c1,
                isValid |-> ~(Falsy(c1.clientId) \/ Falsy(c1.clientSecret))]
          ELSE [config |-> c1, isValid |-> TRUE]

\* A call of validateMcpConfig()
CallValidateMcpConfig ==
  /\ started < MaxStarts
  /\ started' = started + 1
  /\ LET v == validateMcpConfig(config, env)
     IN /\ config' = v.config
        /\ last' = [NoCall EXCEPT !.flip = ~last.flip, !.entry = "validateMcpConfig",
                                  !.result = JsBoolean(v.isValid)]
  /\ validated' = validated + 1
  /\ UNCHANGED <<cli, isTokenAuth, env, mfaBearerToken, mainPc, pending,
                 authenticatedUsers, basicAuthUsers, requests, records>>

\* The options of createMcpServer that it copies into process.env
McpServerOptions ==
  [token : {Undefined, JsString(<<"a">>)}, mfaBearerToken : MfaSecrets]

\* if (options.token) { process.env.GH_TOKEN = ...; process.env.GH_AUTH_METHOD = 'token'; }
\* if (options.mfaBearerToken) { process.env.GH_MFA_BEARER_TOKEN = ...; }
ApplyOptions(e, options) ==
  [e EXCEPT !.GH_TOKEN = IF ~Falsy(options.token) THEN options.token ELSE @,
            !.GH_AUTH_METHOD = IF ~Falsy(options.token) THEN "token" ELSE @,
            !.GH_MFA_BEARER_TOKEN =
               IF options.mfaBearerToken # <<>> THEN options.mfaBearerToken ELSE @]

\* createMcpServer(options): the options are applied, then the token is
\* verified; without a token it throws
CreateMcpServer ==
  /\ started < MaxStarts
  /\ BagCardinality(pending) < MaxCalls
  /\ started' = started + 1
  /\ \E options \in McpServerOptions :
       /\ env' = ApplyOptions(env, options)
       /\ IF ~Falsy(options.token)
          THEN Begin("createMcpServer", options.token)
          ELSE /\ Finish(Unsent("createMcpServer", options.token), NoResponse,
                         [user |-> Null, err |-> "authRequired"], pending)
               /\ UNCHANGED <<validated, cli, config, isTokenAuth, mfaBearerToken, requests, records>>

\* Environments that may lack the token or the OAuth client credentials
StartEnvs ==
  [GH_AUTH_METHOD : {"", "oauth", "saml"}, GH_TOKEN : EnvTokens,
   GH_MFA_BEARER_TOKEN : MfaSecrets,
   GH_CLIENT_ID : {Undefined, JsString(<<"c">>)},
   GH_CLIENT_SECRET : {Undefined, JsString(<<"s">>)}]

StartInit ==
  /\ \E e \in StartEnvs : Loaded(e)
  /\ last = NoCall

StartNext ==
  \/ Main
  \/ CallValidateMcpConfig
  \/ CreateMcpServer
  \/ BasicRequest
  \/ Respond

StartSpec == StartInit /\ [][StartNext]_vars

(***************************************************************************)
(* Request instrumentation with long secrets: one request of the           *)
(* basic-auth verification and one of GitHubService is built, passed to    *)
(* its beforeRequest hook and logged.  `last` holds the request and the    *)
(* record; each run instruments one request.                               *)
(***************************************************************************)
InstrInit ==
  /\ \E mfa \in LongMfaSecrets :
       Loaded([GH_AUTH_METHOD |-> "token", GH_TOKEN |-> JsString(<<"a">>),
               GH_MFA_BEARER_TOKEN |-> mfa,
               GH_CLIENT_ID |-> Undefined, GH_CLIENT_SECRET |-> Undefined])
  /\ last = NoCall

\* getUserFromToken of basicAuth.ts issues its request
VerifyRequest ==
  /\ last = NoCall
  /\ \E token \in TokenSecrets :
       LET call == Sent("basicStrategy", JsString(token))
       IN last' = [NoCall EXCEPT !.flip = ~last.flip, !.entry = call.entry,
                                 !.token = call.token, !.sent = call.sent,
                                 !.request = call.request, !.record = call.record]
  /\ UNCHANGED <<validated, cli, config, isTokenAuth, env, mfaBearerToken, mainPc, pending, authenticatedUsers,
                 basicAuthUsers, started, requests, records>>

\* A GitHubService built for a user issues a request
ServiceCall ==
  /\ last = NoCall
  /\ \E token \in TokenSecrets :
       LET hook == ServiceBeforeRequest(ServiceRequest(token, mfaBearerToken))
       IN last' = [NoCall EXCEPT !.flip = ~last.flip, !.entry = "service",
                                 !.token = JsString(token), !.sent = 1,
                                 !.request = hook.request, !.record = hook.record]
  /\ UNCHANGED <<validated, cli, config, isTokenAuth, env, mfaBearerToken, mainPc, pending, authenticatedUsers,
                 basicAuthUsers, started, requests, records>>

\* An earlier GitHubService built for a user issues a request
LegacyServiceCall ==
  /\ last = NoCall
  /\ \E token \in TokenSecrets :
       LET hook == LegacyBeforeRequest(ServiceRequest(token, mfaBearerToken))
       IN last' = [NoCall EXCEPT !.flip = ~last.flip, !.entry = "legacyService",
                                 !.token = JsString(token), !.sent = 1,
                                 !.request = hook.request, !.record = hook.record]
  /\ UNCHANGED <<validated, cli, config, isTokenAuth, env, mfaBearerToken, mainPc, pending,
                 authenticatedUsers, basicAuthUsers, started, requests, records>>

InstrNext == VerifyRequest \/ ServiceCall \/ LegacyServiceCall

InstrSpec == InstrInit /\ [][InstrNext]_vars

(***************************************************************************)
(* The basic-auth module with a secondary-factor secret that cannot be     *)
(* sent as a header value.                                                 *)
(***************************************************************************)
\* A secret with a line break in it
MalformedMfaSecret == <<"a", "\n", "b">>

MalformedInit ==
  /\ \E token \in EnvTokens, mfa \in {<<"m">>, MalformedMfaSecret} :
       Loaded([GH_AUTH_METHOD |-> "token", GH_TOKEN |-> token,
               GH_MFA_BEARER_TOKEN |-> mfa,
               GH_CLIENT_ID |-> Undefined, GH_CLIENT_SECRET |-> Undefined])
  /\ last = NoCall

MalformedNext ==
  \/ TokenInit
  \/ BasicStrategyRequest
  \/ Respond

MalformedSpec == MalformedInit /\ [][MalformedNext]_vars

(***************************************************************************)
(* The tools of the server.  A handler looks up the first user of the      *)
(* registry, builds a GitHubService for it and awaits the service method,  *)
(* which makes one upstream round trip after another.                      *)
(***************************************************************************)
\* typeof error === 'string' ? error : error instanceof Error ? error.message : ...
ErrorMessage(error) == IF error.t = "string" THEN error.v ELSE error.message

\* ResponseFormatter.error(error): the text is `Error: ${errorMessage}`
ResponseFormatterError(error) ==
  [content |-> <<[type |-> "text", text |-> <<"Error: ">> \o ErrorMessage(error)]>>]

\* ResponseFormatter.success(text)
ResponseFormatterSuccess(text) == [content |-> <<[type |-> "text", text |-> text]>>]

\* The message of a handler that finds no user
NoAuthenticatedUser ==
  JsString(<<"No authenticated user. Please authenticate at the server URL.">>)

\* The arguments of a tool call that change what the service does
SourceBranches == {Undefined, JsString(<<"dev">>)}

\* The upstream round trips of the service method behind a tool: createBranch
\* gets the repository when no source branch is given, then the ref of the
\* source branch, then creates the ref
RoundTrips(tool, sourceBranch) ==
  IF tool = "create-branch" THEN (IF Falsy(sourceBranch) THEN 3 ELSE 2) ELSE 1

\* Mutant of ToolResult: the error of the service reaches the dispatcher
ToolResultUncaught(tool, resp) ==
  IF resp.status = 200
  THEN [thrown |-> FALSE, value |-> ResponseFormatterSuccess(<<tool>>)]
  ELSE [thrown |-> TRUE, value |-> JsError(<<"HttpError">>)]

\* What the handler returns once its service method has settled: the
\* success text, or in its catch ResponseFormatter.error(error)
ToolResult(tool, resp) ==
  IF resp.status = 200
  THEN [thrown |-> FALSE, value |-> ResponseFormatterSuccess(<<tool>>)]
  ELSE [thrown |-> FALSE, value |-> ResponseFormatterError(JsError(<<"HttpError">>))]

\* The handler of a tool, up to its first await
ToolCall ==
  /\ mainPc = "serving"
  /\ started < MaxStarts
  /\ BagCardinality(pending) < MaxCalls
  /\ started' = started + 1
  /\ \E tool \in ToolNames, sourceBranch \in SourceBranches :
       LET user == MapFirstValue(authenticatedUsers)
       IN IF user = Undefined
          THEN /\ last' = [NoCall EXCEPT
                            !.flip = ~last.flip, !.entry = tool,
                            !.result = [thrown |-> FALSE,
                                        value |-> ResponseFormatterError(NoAuthenticatedUser)],
                            !.err = "noUser"]
               /\ UNCHANGED <<pending, requests, records>>
          ELSE LET hook == ServiceBeforeRequest(
                             ServiceRequest(user.accessToken.v, env.GH_MFA_BEARER_TOKEN))
               IN /\ pending' = pending (+) SetToBag({
                       [entry |-> tool, token |-> user.accessToken, sent |-> 1,
                        request |-> hook.request, record |-> hook.record,
                        left |-> RoundTrips(tool, sourceBranch) - 1]})
                  /\ requests' = requests + 1
                  /\ records' = records + 1
                  /\ UNCHANGED last
  /\ UNCHANGED <<validated, cli, config, isTokenAuth, env, mfaBearerToken, mainPc,
                 authenticatedUsers, basicAuthUsers>>

\* The upstream answers a round trip of a tool: the service goes on to its
\* next request, or the handler returns
ToolRespond ==
  \E call \in BagToSet(pending) : \E resp \in Answers(call.request) :
    LET rest == pending (-) SetToBag({call})
    IN /\ call.entry \in ToolNames
       /\ IF resp.status = 200 /\ call.left > 0
          THEN /\ pending' = rest (+) SetToBag({[call EXCEPT !.sent = @ + 1, !.left = @ - 1]})
               /\ requests' = requests + 1
               /\ records' = records + 1
               /\ UNCHANGED last
          ELSE /\ pending' = rest
               /\ last' = [NoCall EXCEPT
                            !.flip = ~last.flip, !.entry = call.entry,
                            !.token = call.token, !.resp = resp,
                            !.result = ToolResult(call.entry, resp),
                            !.err = IF resp.status = 200 THEN "none" ELSE "upstream",
                            !.sent = call.sent, !.request = call.request,
                            !.record = call.record]
               /\ UNCHANGED <<requests, records>>
       /\ UNCHANGED <<validated, cli, config, isTokenAuth, env, mfaBearerToken, mainPc,
                      authenticatedUsers, basicAuthUsers, started>>

ToolNext ==
  \/ Main
  \/ BasicRequest
  \/ OAuthCallback
  \/ ToolCall
  \/ Respond
  \/ ToolRespond

ToolSpec == Init /\ [][ToolNext]_vars

(***************************************************************************)
(* The command line: it parses its arguments, and with a token it spawns   *)
(* the server as a child process that inherits its environment, and exits  *)
(* when the child closes.                                                  *)
(***************************************************************************)
ArgHelp == <<"-", "-", "h", "e", "l", "p">>

ArgH == <<"-", "h">>

ArgVersion == <<"-", "-", "v", "e", "r", "s", "i", "o", "n">>

ArgV == <<"-", "v">>

TokenPrefix == <<"-", "-", "t", "o", "k", "e", "n", "=">>

MfaTokenPrefix == <<"-", "-", "m", "f", "a", "-", "t", "o", "k", "e", "n", "=">>

\* The arguments a command line is made of
Args ==
  {ArgHelp, ArgH, ArgVersion, ArgV, TokenPrefix \o <<"a">>, TokenPrefix,
   MfaTokenPrefix \o <<"m">>, <<"x">>}

\* String.prototype.startsWith
StartsWith(s, prefix) == OccursAt(s, prefix, 1)

\* String.prototype.split(separator) for a one-character separator
RECURSIVE Split(_, _)
Split(s, separator) ==
  IF \A i \in 1..Len(s) : s[i] # separator
  THEN <<s>>
  ELSE LET i == CHOOSE j \in 1..Len(s) :
                  s[j] = separator /\ \A k \in 1..(j - 1) : s[k] # separator
       IN <<SubSeq(s, 1, i - 1)>> \o Split(SubSeq(s, i + 1, Len(s)), separator)

\* arg.split('=')[1]
SplitValue(arg) ==
  IF Len(Split(arg, "=")) >= 2 THEN JsString(Split(arg, "=")[2]) ELSE Undefined

\* The body of the loop of parseArgs
ParseArg(options, arg) ==
  IF arg = ArgHelp \/ arg = ArgH THEN [options EXCEPT !.help = TRUE]
  ELSE IF arg = ArgVersion \/ arg = ArgV THEN [options EXCEPT !.version = TRUE]
  ELSE IF StartsWith(arg, TokenPrefix) THEN [options EXCEPT !.token = SplitValue(arg)]
  ELSE IF StartsWith(arg, MfaTokenPrefix)
       THEN [options EXCEPT !.mfaBearerToken = SplitValue(arg).v]
       ELSE options

RECURSIVE ParseArgsFrom(_, _)
ParseArgsFrom(options, args) ==
  IF args = <<>> THEN options ELSE ParseArgsFrom(ParseArg(options, Head(args)), Tail(args))

\* parseArgs(): the defaults come from the environment
parseArgs(args, e) ==
  ParseArgsFrom([help |-> FALSE, version |-> FALSE,
                 token |-> JsOr(e.GH_TOKEN, JsString(<<>>)),
                 mfaBearerToken |-> e.GH_MFA_BEARER_TOKEN], args)

\* The environment runServer leaves for the child
ServerEnv(e, options) ==
  [e EXCEPT !.GH_AUTH_METHOD = "token",
            !.GH_TOKEN = IF ~Falsy(options.token) THEN options.token ELSE @,
            !.GH_MFA_BEARER_TOKEN =
               IF options.mfaBearerToken # <<>> THEN options.mfaBearerToken ELSE @]

\* No server process
NoConfig ==
  [authMethod |-> "", token |-> Undefined, clientId |-> Undefined,
   clientSecret |-> Undefined]

\* process.exit(code) of the command line
CliExit(code) == [cli EXCEPT !.pc = "exited", !.exitCode = code]

\* runServer(options): the environment is set; when dist/index.js is missing
\* the command line exits with 1, else the child is spawned and loads its modules
runServer(options) ==
  /\ env' = ServerEnv(env, options)
  /\ \E exists \in BOOLEAN :
       IF ~exists
       THEN /\ cli' = CliExit(1)
            /\ UNCHANGED <<config, isTokenAuth, mfaBearerToken, mainPc>>
       ELSE /\ cli' = [cli EXCEPT !.pc = "waiting", !.spawned = TRUE]
            /\ config' = LoadConfig(env')
            /\ isTokenAuth' = (LoadConfig(env').authMethod = "token")
            /\ mfaBearerToken' = env'.GH_MFA_BEARER_TOKEN
            /\ mainPc' = "loaded"

\* Mutant of CliMain: the server is run whether or not there is a token
CliMainNoTokenCheck ==
  /\ cli.pc = "start"
  /\ LET options == parseArgs(cli.argv, env)
     IN IF options.help \/ options.version
        THEN /\ cli' = CliExit(0)
             /\ UNCHANGED <<env, config, isTokenAuth, mfaBearerToken, mainPc>>
        ELSE runServer(options)
  /\ UNCHANGED <<validated, pending, authenticatedUsers, basicAuthUsers, started,
                 requests, records, last>>

\* main() of the command line
CliMain ==
  /\ cli.pc = "start"
  /\ LET options == parseArgs(cli.argv, env)
     IN IF options.help
        THEN /\ cli' = CliExit(0)
             /\ UNCHANGED <<env, config, isTokenAuth, mfaBearerToken, mainPc>>
        ELSE IF options.version
        THEN /\ cli' = CliExit(0)
             /\ UNCHANGED <<env, config, isTokenAuth, mfaBearerToken, mainPc>>
        ELSE IF Falsy(options.token)
        THEN /\ cli' = CliExit(1)
             /\ UNCHANGED <<env, config, isTokenAuth, mfaBearerToken, mainPc>>
        ELSE runServer(options)
  /\ UNCHANGED <<validated, pending, authenticatedUsers, basicAuthUsers, started,
                 requests, records, last>>

\* The codes with which the child can close: 1 from the process.exit(1) of
\* its main(), null when a signal ends it while it runs
CloseCodes == IF mainPc = "exited" THEN {JsNumber(1)} ELSE {Null}

\* The status of a process that calls process.exit(code): null leaves the default 0
ExitStatus(code) == IF code = Null THEN 0 ELSE code.v

\* server.on('close', (code) => { ...; process.exit(code); })
ServerClose ==
  /\ cli.pc = "waiting"
  /\ \E code \in CloseCodes :
       /\ cli' = [CliExit(ExitStatus(code)) EXCEPT !.serverCode = code]
       /\ mainPc' = "closed"
       /\ pending' = EmptyBag
  /\ UNCHANGED <<validated, config, isTokenAuth, env, mfaBearerToken, authenticatedUsers,
                 basicAuthUsers, started, requests, records, last>>

\* The environments of the command line
CliEnvs ==
  [GH_AUTH_METHOD : {"", "oauth"}, GH_TOKEN : EnvTokens,
   GH_MFA_BEARER_TOKEN : MfaSecrets,
   GH_CLIENT_ID : {Undefined}, GH_CLIENT_SECRET : {Undefined}]

CliInit ==
  /\ \E e \in CliEnvs, argv \in UNION {[1..n -> Args] : n \in 0..MaxArgs} :
       /\ env = e
       /\ cli = [pc |-> "start", argv |-> argv, env |-> e, exitCode |-> Null,
                 spawned |-> FALSE, serverCode |-> Undefined]
  /\ config = NoConfig
  /\ isTokenAuth = FALSE
  /\ mfaBearerToken = <<>>
  /\ mainPc = "none"
  /\ validated = 0
  /\ pending = EmptyBag
  /\ authenticatedUsers = <<>>
  /\ basicAuthUsers = <<>>
  /\ started = 0
  /\ requests = 0
  /\ records = 0
  /\ last = NoCall

CliNext ==
  \/ CliMain
  \/ Main
  \/ Respond
  \/ ServerClose

CliSpec == CliInit /\ [][CliNext]_vars

(***************************************************************************)
(* Properties.                                                             *)
(***************************************************************************)
\* The value of a decimal string
RECURSIVE DecimalValue(_)
DecimalValue(s) ==
  IF s = <<>> THEN 0
  ELSE 10 * DecimalValue(SubSeq(s, 1, Len(s) - 1))
       + (CHOOSE d \in 0..9 : Digits[d + 1] = s[Len(s)])

\* A decimal string without sign or leading zero
IsDecimal(s) ==
  /\ s # <<>>
  /\ \A i \in 1..Len(s) : \E d \in 0..9 : Digits[d + 1] = s[i]
  /\ Len(s) > 1 => s[1] # "0"

\* A credential that is not a string, or is empty or only white space
IsBlank(token) ==
  token.t # "string" \/ \A i \in 1..Len(token.v) : token.v[i] \in WhiteSpace

\* The completed call ran getUserFromToken
VerifyCalled(call) ==
  \/ call.entry \in {"startup", "basic", "verifyGithubAuth", "basicStrategy"}
  \/ call.entry = "tokenInit" /\ ~Falsy(call.token)

\* The upstream accepted the credential with a non-zero id and a login
ValidIdentity(resp) ==
  /\ resp.status = 200
  /\ resp.id.t = "number"
  /\ resp.id.v # 0
  /\ resp.login.t = "string"

\* This step completes a call
Completes == last'.flip # last.flip

\* C1: a credential the upstream accepts with an id and a login verifies to
\* the identity with the decimal string of that id, that login and that
\* credential, and once the entry point that writes a registry has completed,
\* the lookup by that id in its registry returns that identity.
C1_VerifiedIdentityStored ==
  (VerifyCalled(last) /\ ValidIdentity(last.resp)) =>
    /\ last.result # Null
    /\ last.result.id.t = "string"
    /\ IsDecimal(last.result.id.v)
    /\ DecimalValue(last.result.id.v) = last.resp.id.v
    /\ last.result.username = last.resp.login
    /\ last.result.accessToken = last.token
    /\ last.token.t = "string" /\ last.token.v # <<>>
    /\ last.entry \in {"startup", "basic"} =>
         MapGet(authenticatedUsers, last.result.id) = last.result
    /\ last.entry \in {"tokenInit", "basicStrategy"} =>
         MapGet(basicAuthUsers, last.result.id) = last.result

C1_Witness ==
  /\ last.entry = "basic"
  /\ ValidIdentity(last.resp)
  /\ last.resp.id.v = 12
  /\ last.token = JsString(<<" ", "b">>)
  /\ MapGet(authenticatedUsers, JsString(<<"1", "2">>)) = last.result
  /\ last.result.username = JsString(<<"a", "l">>)

\* C2: a credential that is empty, only white space or not a string makes
\* verify fail at once (null, with the invalid-token message) without any
\* upstream request: no such call is ever suspended at the upstream, and the
\* step that completes it leaves the count of requests unchanged.
C2_BlankStep ==
  (Completes /\ VerifyCalled(last') /\ IsBlank(last'.token)) =>
    /\ last'.result = Null
    /\ last'.err = "invalidToken"
    /\ last'.sent = 0
    /\ last'.request = NoRequest
    /\ requests' = requests

C2_BlankCredentialNoRequest ==
  /\ [](\A call \in BagToSet(pending) : ~IsBlank(call.token))
  /\ [][C2_BlankStep]_vars

C2_Witness ==
  /\ last.entry = "basicStrategy"
  /\ last.token = JsString(<<" ">>)
  /\ last.err = "invalidToken"
  /\ requests = 1

\* C3 (as claimed): each upstream failure reaches the caller as its own typed
\* error: 401 InvalidCredential, 403 RateLimited, a network failure
\* UpstreamUnreachable, any other status MalformedResponse.
TypedError(name) == [t |-> "error", v |-> name]

ErrorOf(status) ==
  IF status = 401 THEN TypedError("InvalidCredential")
  ELSE IF status = 403 THEN TypedError("RateLimited")
  ELSE IF status = 0 THEN TypedError("UpstreamUnreachable")
  ELSE TypedError("MalformedResponse")

C3_TypedErrors ==
  (VerifyCalled(last) /\ last.resp.status \in FailureStatuses) =>
    last.result = ErrorOf(last.resp.status)

\* C4: a verification that fails leaves both registries as they were, at
\* every entry point.
C4_FailedStep ==
  (Completes /\ last'.result = Null) =>
    /\ authenticatedUsers' = authenticatedUsers
    /\ basicAuthUsers' = basicAuthUsers

C4_FailureLeavesRegistry == [][C4_FailedStep]_vars

C4_Witness ==
  /\ last.entry = "basic"
  /\ last.resp.status = 200
  /\ last.result = Null
  /\ authenticatedUsers # <<>>

\* C5: a registry holds at most one entry per id, each under the id of its
\* identity, and a successful verification of an id already present replaces
\* that entry where it is and keeps the number of entries.
WellFormed(m) ==
  /\ \A i, j \in 1..Len(m) : m[i].key = m[j].key => i = j
  /\ \A i \in 1..Len(m) : m[i].key = m[i].value.id

ReplacedInPlace(m, n, user) ==
  MapHas(m, user.id) =>
    /\ Len(n) = Len(m)
    /\ \A i \in 1..Len(m) :
         n[i] = IF m[i].key = user.id THEN [key |-> user.id, value |-> user] ELSE m[i]

C5_ReverifyStep ==
  (Completes /\ last'.result # Null) =>
    /\ last'.entry \in MainEntries =>
         ReplacedInPlace(authenticatedUsers, authenticatedUsers', last'.result)
    /\ last'.entry \in {"tokenInit", "basicStrategy"} =>
         ReplacedInPlace(basicAuthUsers, basicAuthUsers', last'.result)

C5_OneEntryPerId ==
  /\ [](WellFormed(authenticatedUsers) /\ WellFormed(basicAuthUsers))
  /\ [][C5_ReverifyStep]_vars

C5_Witness ==
  /\ isTokenAuth
  /\ mainPc = "serving"
  /\ last.entry = "basic"
  /\ last.result # Null
  /\ last.token = JsString(<<" ", "b">>)
  /\ Len(authenticatedUsers) = 1
  /\ authenticatedUsers[1].value = last.result

\* C6: a successful verification that finds its own identity already in the
\* registry leaves the registry equal to what it was, with one entry for the id.
Idempotent(m, n, user) ==
  (MapHas(m, user.id) /\ MapGet(m, user.id) = user) =>
    /\ n = m
    /\ Cardinality({i \in 1..Len(n) : n[i].key = user.id}) = 1

C6_RepeatStep ==
  (Completes /\ last'.result # Null) =>
    /\ last'.entry \in {"startup", "basic"} =>
         Idempotent(authenticatedUsers, authenticatedUsers', last'.result)
    /\ last'.entry \in {"tokenInit", "basicStrategy"} =>
         Idempotent(basicAuthUsers, basicAuthUsers', last'.result)

C6_EnsureAuthenticatedIdempotent == [][C6_RepeatStep]_vars

C6_Witness ==
  /\ isTokenAuth
  /\ mainPc = "serving"
  /\ last.entry = "basic"
  /\ last.token = config.token
  /\ last.result # Null
  /\ Len(authenticatedUsers) = 2
  /\ authenticatedUsers[1].value = last.result

\* C7: no call issues more than one who-am-I request: a call suspended at the
\* upstream has issued one, a completed call at most one, and the requests
\* issued never exceed the calls begun.
C7_NoRetry ==
  /\ last.sent <= 1
  /\ \A call \in BagToSet(pending) : call.sent = 1
  /\ requests <= started + 1
  /\ requests >= BagCardinality(pending)

C7_Witness ==
  /\ last.entry = "basicStrategy"
  /\ last.resp.status = 403
  /\ last.sent = 1
  /\ requests = 1
  /\ pending = EmptyBag

\* Some substring of the secret longer than four characters occurs in value
ShowsMoreThanFour(value, secret) ==
  \E i \in 1..(Len(secret) - 4) : Contains(value, SubSeq(secret, i, i + 4))

\* C8 (as claimed): the authorization and MFA values of a request record
\* never show more of a secret than its last four characters.
C8_NoUnmaskedSecret ==
  last.record # NoRequest =>
    /\ ~ShowsMoreThanFour(last.record.headers["authorization"], last.token.v)
    /\ ~ShowsMoreThanFour(last.record.headers["MFA"], mfaBearerToken)

\* The last four characters of a secret
LastFour(secret) == Substring(secret, Len(secret) - 4)

\* masked keeps the scheme, ends with the last four characters of the secret
\* and holds no other four characters of it
MaskedForm(masked, scheme, secret) ==
  /\ OccursAt(masked, scheme, 1)
  /\ OccursAt(masked, LastFour(secret), Len(masked) - Len(LastFour(secret)) + 1)
  /\ \A i \in 1..(Len(secret) - 3) :
       SubSeq(secret, i, i + 3) # LastFour(secret) =>
         ~Contains(masked, SubSeq(secret, i, i + 3))

\* C9 (as claimed): masking a masked value changes nothing, and a masked
\* value keeps its scheme, ends with the last four characters of the secret
\* and contains no other four contiguous characters of it.
C9_MaskIdempotentLastFour ==
  last.record # NoRequest =>
    LET auth == last.record.headers["authorization"]
        mfa == last.record.headers["MFA"]
        again == IF last.entry = "service" THEN ServiceMaskMfa(mfa)
                 ELSE BasicAuthMaskMfa(mfa)
    IN /\ MaskAuthorization(auth) = auth
       /\ MaskedForm(auth, <<"B", "e", "a", "r", "e", "r", " ">>, last.token.v)
       /\ mfaBearerToken # <<>> =>
            /\ again = mfa
            /\ MaskedForm(mfa, <<"b", "e", "a", "r", "e", "r", " ">>, mfaBearerToken)

\* C10 (as claimed): with a secondary factor configured the request carries
\* the MFA header "bearer <secret>"; with none the request has no MFA header.
C10_MfaHeaderInjection ==
  last.request.via \in {"basicAuth", "service"} =>
    IF mfaBearerToken # <<>>
    THEN /\ "MFA" \in DOMAIN last.request.headers
         /\ last.request.headers["MFA"]
              = <<"b", "e", "a", "r", "e", "r", " ">> \o mfaBearerToken
    ELSE "MFA" \notin DOMAIN last.request.headers

\* The calls that this step suspends at the upstream
Issued ==
  {call \in BagToSet(pending') : CopiesIn(call, pending') > CopiesIn(call, pending)}

\* The request carries the secondary factor
Carries(request, factor) ==
  /\ "MFA" \in DOMAIN request.headers
  /\ request.headers["MFA"] = <<"b", "e", "a", "r", "e", "r", " ">> \o factor

\* C11 (as claimed): whenever a verification request is issued while the
\* process holds a secondary factor, the request carries that factor, on
\* every verification path.
C11_Step ==
  \A call \in Issued :
    env'.GH_MFA_BEARER_TOKEN # <<>> =>
      Carries(call.request, env'.GH_MFA_BEARER_TOKEN)

C11_FactorOnEveryRequest == [][C11_Step]_vars

\* C12 (as claimed): the request records logged are as many as the who-am-I
\* requests issued.
C12_OneRecordPerRequest == records = requests

\* The step begins a call of the entry point: the call is suspended in
\* pending or has completed at once
StepOf(entry) ==
  \/ \E call \in Issued : call.entry = entry
  \/ Completes /\ last'.entry = entry

\* C13: the Basic-Auth gate ignores the username: a request with a password
\* does, under any other username, the same step (the same call suspended or
\* completed, the same response, the same registries), and the credential it
\* passes to the validator is the password.
C13_Step ==
  /\ (started' # started /\ StepOf("basic")) =>
       \A u1 \in Usernames, p \in Credentials :
         BasicRequestAs(u1, p) =>
           /\ \A u2 \in Usernames : BasicRequestAs(u2, p)
           /\ \/ \E call \in Issued : call.entry = "basic" /\ call.token = p
              \/ Completes /\ last'.entry = "basic" /\ last'.token = p
  /\ (started' # started /\ StepOf("basicStrategy")) =>
       \A u1 \in Usernames, p \in Credentials :
         BasicStrategyRequestAs(u1, p) =>
           /\ \A u2 \in Usernames : BasicStrategyRequestAs(u2, p)
           /\ \/ \E call \in Issued : call.entry = "basicStrategy" /\ call.token = p
              \/ Completes /\ last'.entry = "basicStrategy" /\ last'.token = p

C15_StoredIdentityVerified ==
  (last.entry \in {"startup", "basic", "oauth", "tokenInit", "basicStrategy"}
     /\ last.result # Null) =>
    /\ last.sent = 1
    /\ last.resp.status = 200
    /\ IsDecimal(last.result.id.v)
    /\ DecimalValue(last.result.id.v) = last.resp.id.v
    /\ last.result.username = last.resp.login

\* A string with at least one character
HasText(x) == x.t = "string" /\ x.v # <<>>

\* C16: the authentication method is selected when the configuration is
\* loaded and never changes: the router's method is the configured one in
\* every state, and no step, a validateMcpConfig call included, writes either.
C16_Step ==
  /\ config'.authMethod = config.authMethod
  /\ isTokenAuth' = isTokenAuth

C16_AuthMethodImmutable ==
  /\ [](isTokenAuth = (config.authMethod = "token"))
  /\ [][C16_Step]_vars

C16_Witness ==
  /\ last.entry = "validateMcpConfig"
  /\ config.authMethod = "oauth"
  /\ env.GH_AUTH_METHOD = "token"
  /\ ~isTokenAuth

\* C17: validateMcpConfig returns a boolean: with the token method, true
\* exactly when the configuration or, failing that, the environment holds a
\* token, which is then copied into the configuration; with the OAuth method,
\* true exactly when client id and client secret are both set.
C17_Step ==
  (Completes /\ last'.entry = "validateMcpConfig") =>
    /\ last'.result \in {JsBoolean(TRUE), JsBoolean(FALSE)}
    /\ config.authMethod = "token" =>
         /\ last'.result = JsBoolean(HasText(config.token) \/ HasText(env.GH_TOKEN))
         /\ config'.token = IF ~HasText(config.token) /\ HasText(env.GH_TOKEN)
                            THEN env.GH_TOKEN ELSE config.token
    /\ config.authMethod = "oauth" =>
         /\ last'.result =
              JsBoolean(HasText(config.clientId) /\ HasText(config.clientSecret))
         /\ config' = config

C17_ValidateMcpConfig == [][C17_Step]_vars

C17_Witness ==
  /\ last.entry = "validateMcpConfig"
  /\ last.result = JsBoolean(TRUE)
  /\ isTokenAuth
  /\ mainPc = "exited"
  /\ requests = 1
  /\ config.token = JsString(<<"a">>)
  /\ env.GH_TOKEN = config.token

\* The selected method lacks what it needs
Unmet(c) ==
  \/ c.authMethod = "token" /\ ~HasText(c.token)
  \/ c.authMethod = "oauth" /\ ~(HasText(c.clientId) /\ HasText(c.clientSecret))

\* C18 (as claimed): a server whose selected method lacks what it needs never
\* gets past its start: it issues no startup verification, starts no
\* authentication server and never serves the MCP tools.
C18_FailFast == Unmet(config) => mainPc \in {"loaded", "exited"}

\* C19 (as claimed): verify never returns an identity whose id or username is
\* missing or empty.
C19_NoIncompleteIdentity ==
  (VerifyCalled(last) /\ last.result # Null) =>
    /\ HasText(last.result.id)
    /\ HasText(last.result.username)

\* C20: in OAuth mode the server comes up with its Basic-Auth route, and a
\* Basic-Auth request whose password the upstream accepts is verified by the
\* validator, stored in the registry and answered as authenticated.
C20_BasicAuthInOAuthMode ==
  ~isTokenAuth =>
    /\ mainPc # "loaded" => mainPc = "serving"
    /\ (last.entry = "basic" /\ ValidIdentity(last.resp)) =>
         /\ last.sent = 1
         /\ last.response.status = 200
         /\ last.response.authenticated
         /\ MapGet(authenticatedUsers, last.result.id) = last.result
         /\ last.result.accessToken = last.token

C20_Witness ==
  /\ ~isTokenAuth
  /\ last.entry = "basic"
  /\ last.response.status = 200
  /\ started = 1
  /\ Len(authenticatedUsers) = 1

\* Every entry of the registry has the same id
OneId(registry) == \A i, j \in 1..Len(registry) : registry[i].key = registry[j].key

\* The tool calls that the step has put into pending
NewToolCalls ==
  {call \in BagToSet(pending') :
     call.entry \in ToolNames /\ call.sent = 1
     /\ CopiesIn(call, pending') > CopiesIn(call, pending)}

C21_Step ==
  /\ (Completes /\ last'.entry \in MainEntries /\ last'.result # Null
      /\ OneId(authenticatedUsers'))
     => MapFirstValue(authenticatedUsers') = last'.result
  /\ \A call \in NewToolCalls :
       /\ MapFirstValue(authenticatedUsers) # Undefined
       /\ call.token = MapFirstValue(authenticatedUsers).accessToken

\* C21: the lookup of the tool handlers returns undefined while the registry is
\* empty, and while every identity stored so far has one id it returns the
\* identity stored by the most recent successful verification, however often
\* that id was verified; a handler that issues a request uses the user it returns
C21_FirstOrAbsent ==
  /\ [](authenticatedUsers = <<>> => MapFirstValue(authenticatedUsers) = Undefined)
  /\ [][C21_Step]_vars

\* The id stored at startup was verified again with another credential, and a
\* tool has run with the registry's only entry
C21_Witness ==
  /\ isTokenAuth
  /\ Len(authenticatedUsers) = 1
  /\ MapFirstValue(authenticatedUsers).accessToken = JsString(<<" ", "b">>)
  /\ last.entry \in ToolNames
  /\ last.token = JsString(<<" ", "b">>)

\* C22: createMcpServer returns a server, with its tools registered, exactly when
\* a token option was given and its verification yielded a user from a 200
\* answer; otherwise it throws 'Authentication required' and returns nothing,
\* and without a token option it has issued no upstream request
C22_CreateMcpServer ==
  last.entry = "createMcpServer" =>
    LET verified == ~Falsy(last.token) /\ last.resp.status = 200 /\ last.result # Null
    IN /\ verified => last.returned =
                        [thrown |-> FALSE,
                         value |-> [server |-> "McpServer", tools |-> WrapperTools]]
       /\ ~verified =>
            /\ last.returned.thrown
            /\ last.returned.value.t = "Error"
            /\ last.returned.value.message =
                 <<"Authentication required. Please provide a valid token.">>
       /\ Falsy(last.token) => last.sent = 0 /\ last.request = NoRequest

\* createMcpServer has returned a server for a verified token
C22_Witness ==
  /\ last.entry = "createMcpServer"
  /\ ~last.returned.thrown
  /\ last.sent = 1
  /\ last.result # Null

\* The command line has the argument
Given(arg) == \E i \in 1..Len(cli.argv) : cli.argv[i] = arg

\* A token comes from --token or from the GH_TOKEN the command line started with
TokenAvailable == Given(TokenPrefix \o <<"a">>) \/ ~Falsy(cli.env.GH_TOKEN)

\* C23: the command line spawns the server only with a token available and
\* neither --help nor --version given; without those two and without a token
\* from --token or GH_TOKEN it exits with 1 and spawns nothing; with --help or
\* --version it exits with 0 and spawns nothing, token or not; once the spawned
\* server has closed with an exit code the command line exits with that code
C23_CliStartsServerWithToken ==
  LET helpOrVersion == Given(ArgHelp) \/ Given(ArgH) \/ Given(ArgVersion) \/ Given(ArgV)
  IN /\ cli.spawned => TokenAvailable /\ ~helpOrVersion
     /\ (cli.pc = "exited" /\ ~helpOrVersion /\ ~TokenAvailable)
          => cli.exitCode = 1 /\ ~cli.spawned
     /\ (cli.pc = "exited" /\ helpOrVersion) => cli.exitCode = 0 /\ ~cli.spawned
     /\ (cli.pc # "exited" /\ (helpOrVersion \/ ~TokenAvailable)) => cli.pc = "start"
     /\ (cli.spawned /\ cli.pc = "exited" /\ cli.serverCode # Null)
          => cli.serverCode.t = "number" /\ cli.exitCode = cli.serverCode.v

\* The server was spawned with the token of --token, failed its startup
\* verification and exited with 1, and so did the command line
C23_Witness ==
  /\ cli.spawned
  /\ cli.pc = "exited"
  /\ Falsy(cli.env.GH_TOKEN)
  /\ cli.serverCode = JsNumber(1)
  /\ cli.exitCode = 1

\* C24: validateMcpConfig runs once before any verification attempt: whenever
\* an upstream verification request has been issued, validateMcpConfig has
\* returned before, exactly once
C24_ValidatorRunsOnceFirst == requests > 0 => validated = 1

\* The registry after the step holds user under its id exactly once, and
\* every entry of another id as it was
WrittenLast(before, after, user) ==
  /\ Cardinality({i \in 1..Len(after) : after[i].key = user.id}) = 1
  /\ MapGet(after, user.id) = user
  /\ Len(after) = Len(before) + (IF MapHas(before, user.id) THEN 0 ELSE 1)
  /\ \A i \in 1..Len(before) : before[i].key # user.id => after[i] = before[i]

C25_Step ==
  /\ ~Completes => UNCHANGED <<authenticatedUsers, basicAuthUsers>>
  /\ Completes =>
       /\ \A call \in BagToSet(pending') : CopiesIn(call, pending') <= CopiesIn(call, pending)
       /\ mainPc' # "exited" =>
            BagCardinality(pending') =
              BagCardinality(pending) - (IF last'.sent > 0 THEN 1 ELSE 0)
       /\ IF last'.entry \in MainEntries /\ last'.result # Null
          THEN WrittenLast(authenticatedUsers, authenticatedUsers', last'.result)
          ELSE authenticatedUsers' = authenticatedUsers
       /\ IF last'.entry \in BasicAuthEntries /\ last'.result # Null
          THEN WrittenLast(basicAuthUsers, basicAuthUsers', last'.result)
          ELSE basicAuthUsers' = basicAuthUsers

\* C25: however concurrent verification calls interleave, a call touches no
\* registry before its upstream round trip returns; a call that completes
\* leaves the other suspended calls as they were and, when it verified a user,
\* leaves exactly one entry for that user's id holding its own result (the
\* last write wins) and every entry of another id unchanged; a call that
\* fails changes no registry
C25_ConcurrentCallsIndependent == [][C25_Step]_vars

\* A Basic-Auth call has completed and stored its user while the startup
\* verification is still suspended at its round trip
C25_Witness ==
  /\ mainPc = "authenticating"
  /\ \E call \in BagToSet(pending) : call.entry = "startup"
  /\ last.entry = "basic"
  /\ last.result # Null
  /\ Len(authenticatedUsers) = 1
  /\ authenticatedUsers[1].value = last.result

\* The request as its builder made it, before any hook
BuiltRequest(entry, token, mfa) ==
  IF entry = "basicStrategy" THEN BasicAuthRequest(token, mfa) ELSE ServiceRequest(token, mfa)

\* C26: after a beforeRequest hook the request has the method, the URL and
\* every header value, authorization and MFA included, that it was built
\* with; only the logged record carries the masks
C26_HookLeavesRequest ==
  last.entry \in {"basicStrategy", "service", "legacyService"} =>
    LET built == BuiltRequest(last.entry, last.token.v, mfaBearerToken)
    IN /\ last.request.method = built.method
       /\ last.request.url = built.url
       /\ DOMAIN last.request.headers = DOMAIN built.headers
       /\ \A n \in DOMAIN built.headers : last.request.headers[n] = built.headers[n]
       /\ last.request.headers["authorization"] = TokenScheme \o last.token.v
       /\ last.record.headers["authorization"] # last.request.headers["authorization"]

\* The hook of GitHubService has logged a record whose authorization and MFA
\* values are masked, for a request that carries both secrets
C26_Witness ==
  /\ last.entry = "service"
  /\ Len(mfaBearerToken) = MaxSecretLen
  /\ Len(last.token.v) = MaxSecretLen
  /\ last.record.headers["authorization"] # last.request.headers["authorization"]
  /\ last.request.headers["MFA"] = BearerWord \o <<" ">> \o mfaBearerToken

\* C27: a secondary-factor secret that cannot be built into the request does
\* not abort the verification: the who-am-I request goes out without the MFA
\* header and reaches the upstream
C27_SecondaryFactorFailureDegrades ==
  (last.entry \in BasicAuthEntries /\ last.sent > 0
   /\ InvalidHeaderValue(MfaHeaderValue(mfaBearerToken)))
    => ~HasHeader(last.request, "MFA") /\ ~Rejected(last.request)

\* The result a handler returns when it finds no user
NoUserResult ==
  [thrown |-> FALSE,
   value |-> [content |-> <<[type |-> "text",
                             text |-> <<"Error: ",
                                        "No authenticated user. Please authenticate at the server URL.">>]>>]]

C28_Step ==
  /\ NewToolCalls # {} => authenticatedUsers # <<>>
  /\ (Completes /\ last'.entry \in ToolNames /\ started' # started) =>
       /\ authenticatedUsers = <<>>
       /\ last'.result = NoUserResult
       /\ last'.sent = 0
       /\ requests' = requests
       /\ pending' = pending

\* C28: a tool handler invoked while the registry is empty returns the 'No
\* authenticated user' error result and issues no upstream request; no handler
\* throws, and a failure of the upstream is returned as an error result
C28_ToolsWithoutUser ==
  /\ [](last.entry \in ToolNames =>
         /\ ~last.result.thrown
         /\ last.result.value.content[1].type = "text"
         /\ (last.sent > 0 /\ last.resp.status # 200) =>
              Head(last.result.value.content[1].text) = "Error: ")
  /\ [][C28_Step]_vars

\* A tool was called on an OAuth-mode server before any login
C28_Witness ==
  /\ ~isTokenAuth
  /\ mainPc = "serving"
  /\ authenticatedUsers = <<>>
  /\ last.entry \in ToolNames
  /\ last.result = NoUserResult
  /\ requests = 0

C29_Step ==
  /\ Len(authenticatedUsers') >= Len(authenticatedUsers)
  /\ \A i \in 1..Len(authenticatedUsers) :
       /\ authenticatedUsers'[i].key = authenticatedUsers[i].key
       /\ authenticatedUsers'[i].value # authenticatedUsers[i].value =>
            /\ Completes
            /\ last'.entry \in MainEntries
            /\ last'.result # Null
            /\ last'.result.id = authenticatedUsers[i].key
            /\ authenticatedUsers'[i].value = last'.result
  /\ (Completes /\ last'.entry \in MainEntries /\ last'.result = Null) =>
       authenticatedUsers' = authenticatedUsers
  /\ \A call \in NewToolCalls : call.token = authenticatedUsers[1].value.accessToken

\* C29: an entry of the registry is never removed: it keeps its id and its
\* place, and its identity changes only to the result of a later successful
\* verification of that id; a failed verification, of the stored credential
\* too, leaves the registry as it was, and the tool handlers go on using the
\* stored identity
C29_EntriesNeverRemoved == [][C29_Step]_vars

\* A verification of the stored credential was answered 401, the entry is still
\* there, and a tool call is under way with its token
C29_Witness ==
  /\ Len(authenticatedUsers) = 1
  /\ last.entry = "basic"
  /\ last.resp.status = 401
  /\ last.result = Null
  /\ last.token = authenticatedUsers[1].value.accessToken
  /\ \E call \in BagToSet(pending) :
       call.entry \in ToolNames /\ call.token = last.token

\* C30: whenever validateMcpConfig returns true, the flow the startup router
\* runs has what it requires: the token flow a token, and the OAuth flow,
\* which the router runs for every method other than 'token', a client id and
\* a client secret
C30_ValidatorAgreesWithRouter ==
  (last.entry = "validateMcpConfig" /\ last.result = JsBoolean(TRUE)) =>
    IF isTokenAuth
    THEN HasText(config.token)
    ELSE HasText(config.clientId) /\ HasText(config.clientSecret)

====
